---- MODULE Spec2Model ----
(***************************************************************************)
(* A model of the solar dashboard (app/main.py): the cached loaders with   *)
(* their processed -> raw -> sample fallback, the column standardizer, and *)
(* the grouped statistics, ranking and key-insight selection.              *)
(*                                                                         *)
(* Three specifications share the module's variables:                      *)
(*   SpecLoad   script reruns interleaved with changes of the data files   *)
(*   SpecNorm   standardize_columns applied repeatedly to a table          *)
(*   SpecStats  the statistics / ranking / insight section on a table      *)
(***************************************************************************)
EXTENDS Integers, Sequences, FiniteSets, TLC

VARIABLES
    processed,      \* data/processed/<..>_clean.csv, per country: the file's state
    raw,            \* data/raw/<..>.csv, per country: the file's state
    cacheCountry,   \* st.cache_data store of load_country_data, keyed by country_name
    cacheAll,       \* st.cache_data store of load_all_data (no arguments: one entry)
    data,           \* module-level `data` after line 162
    run,            \* what the last script run did (observations of that run)
    fresh,          \* TRUE right after a script run, until a data file changes
    changes,        \* number of file changes so far
    ndf,            \* SpecNorm: the table standardize_columns works on
    ndf0,           \* SpecNorm: the table as first given
    ndf1,           \* SpecNorm: the table after the first standardize_columns
    npass,          \* SpecNorm: number of standardize_columns calls so far
    sdata,          \* SpecStats: the combined table handed to the dashboard body
    selected_countries, \* SpecStats: sidebar multiselect
    insight,        \* SpecStats: outcome of the analysis / key-insight section
    ranking_data,   \* SpecStats: the ranked sequence of (country, mean)
    metric,         \* SpecStats: sidebar selectbox
    sphase          \* SpecStats: "input" before the section ran, "done" after

loadVars  == <<processed, raw, cacheCountry, cacheAll, data, run, fresh, changes>>
normVars  == <<ndf, ndf0, ndf1, npass>>
statVars  == <<sdata, selected_countries, metric, insight, ranking_data, sphase>>
vars      == <<loadVars, normVars, statVars>>

(***************************************************************************)
(* Bounds of the model.                                                    *)
(***************************************************************************)
MaxVer        == 2   \* distinct contents a data file can be given
MaxChanges    == 1   \* file changes (create / modify / remove / corrupt) per behaviour
RowsPerFile   == 2   \* rows in every readable data file
SampleRows    == 1   \* rows per country in the sample data (200 in the source)
MaxSeed       == 1   \* distinct draws of the sample generator
MaxCell       == 2   \* SpecNorm: distinct cell values of the input table
MaxPass       == 2   \* SpecNorm: standardize_columns calls per behaviour
MaxRows       == 2   \* SpecStats: rows per country in the combined table

(***************************************************************************)
(* Values.  NaN is the missing-value marker of a numeric cell.             *)
(***************************************************************************)
NaN == 0 - 1

\* The country list of lines 85 and 143, in list order.
Countries == <<"Benin", "Sierra Leone", "Togo">>
CountrySet == {Countries[i] : i \in 1..Len(Countries)}

None == [none |-> TRUE, cols |-> {}, rows |-> <<>>, attrs |-> <<>>]

Absent     == [st |-> "absent", ver |-> 0]
Unreadable == [st |-> "unreadable", ver |-> 0]
Content(v) == [st |-> "ok", ver |-> v]

\* os.path.exists(path)
path_exists(f) == f.st # "absent"

(***************************************************************************)
(* pd.read_csv on a readable file.  A processed file carries the canonical *)
(* column names, a raw file a source name for the ambient temperature.     *)
(* Every row remembers the file kind it was read from (origin).            *)
(***************************************************************************)
CellValue(kind, v, i) == (IF kind = "processed" THEN 100 ELSE 200) + 10 * v + i

read_csv(kind, v) ==
    [none  |-> FALSE,
     cols  |-> IF kind = "processed" THEN {"GHI", "Tamb"} ELSE {"GHI", "T_Amb"},
     rows  |-> [i \in 1..RowsPerFile |->
                  [country |-> "",
                   origin  |-> kind,
                   cells   |-> IF kind = "processed"
                               THEN [GHI |-> CellValue(kind, v, i), Tamb |-> CellValue(kind, v, i)]
                               ELSE [GHI |-> CellValue(kind, v, i), T_Amb |-> CellValue(kind, v, i)]]],
     attrs |-> <<>>]

\* df['country'] = country_name
set_country(df, c) ==
    [df EXCEPT !.rows = [i \in 1..Len(df.rows) |-> [df.rows[i] EXCEPT !.country = c]]]

(***************************************************************************)
(* standardize_columns                                                     *)
(***************************************************************************)
column_mapping ==
    << <<"T_ModA", "ModA">>, <<"TModA", "ModA">>, <<"Module_A_Temp", "ModA">>,
       <<"T_ModB", "ModB">>, <<"TModB", "ModB">>, <<"Module_B_Temp", "ModB">>,
       <<"T_Amb", "Tamb">>, <<"T_amb", "Tamb">>, <<"Ambient_Temp", "Tamb">>,
       <<"WS", "WS">>, <<"Wind_Speed", "WS">>,
       <<"WSgust", "WSgust">>, <<"Gust_Speed", "WSgust">>,
       <<"WD", "WD">>, <<"Wind_Direction", "WD">>,
       <<"GHI", "GHI">>, <<"Global_Irradiance", "GHI">>,
       <<"DNI", "DNI">>, <<"Direct_Irradiance", "DNI">>,
       <<"DHI", "DHI">>, <<"Diffuse_Irradiance", "DHI">>,
       <<"RH", "RH">>, <<"Relative_Humidity", "RH">>,
       <<"BP", "BP">>, <<"Barometric_Pressure", "BP">> >>

\* df[new_col] = df[old_col]
assign_column(df, new_col, old_col) ==
    [df EXCEPT
       !.cols = df.cols \cup {new_col},
       !.rows = [i \in 1..Len(df.rows) |->
                   [df.rows[i] EXCEPT
                      !.cells = [k \in (DOMAIN df.rows[i].cells) \cup {new_col} |->
                                   IF k = new_col THEN df.rows[i].cells[old_col]
                                   ELSE df.rows[i].cells[k]]]]]

\* One iteration of the loop of lines 133-135, without the guard on new_col.
MapStepOverwrite(df, pair) ==
    IF pair[1] \in df.cols THEN assign_column(df, pair[2], pair[1]) ELSE df

\* One iteration of the loop of lines 133-135.
MapStep(df, pair) ==
    IF pair[1] \in df.cols /\ pair[2] \notin df.cols
    THEN assign_column(df, pair[2], pair[1])
    ELSE df

RECURSIVE MapFrom(_, _)
MapFrom(df, k) ==
    IF k > Len(column_mapping) THEN df
    ELSE MapFrom(MapStep(df, column_mapping[k]), k + 1)

standardize_columns(df) == MapFrom(df, 1)

(***************************************************************************)
(* load_country_data: the function body, and the call through the cache.   *)
(***************************************************************************)
\* Lines 40-76.  A read error of pd.read_csv is caught at line 74.
load_country_data_body(c, P, R) ==
    IF path_exists(P[c])
    THEN IF P[c].st = "ok" THEN set_country(read_csv("processed", P[c].ver), c) ELSE None
    ELSE IF path_exists(R[c])
         THEN IF R[c].st = "ok" THEN set_country(read_csv("raw", R[c].ver), c) ELSE None
         ELSE None

NoEntry == [hit |-> FALSE, val |-> None]
Entry(v) == [hit |-> TRUE, val |-> v]

\* @st.cache_data: the stored value is returned when the key has an entry.
load_country_data(c, cache, P, R) ==
    IF cache[c].hit THEN cache[c].val ELSE load_country_data_body(c, P, R)

(***************************************************************************)
(* pd.concat(frames, ignore_index=True): the rows of the frames in order,  *)
(* over the union of their columns; a cell a frame lacks is NaN.           *)
(***************************************************************************)
RECURSIVE AllCols(_)
AllCols(frames) ==
    IF frames = <<>> THEN {} ELSE frames[1].cols \cup AllCols(Tail(frames))

Widen(row, cols) ==
    [row EXCEPT !.cells = [k \in cols |-> IF k \in DOMAIN row.cells THEN row.cells[k] ELSE NaN]]

RECURSIVE CatRows(_, _)
CatRows(frames, cols) ==
    IF frames = <<>> THEN <<>>
    ELSE [i \in 1..Len(frames[1].rows) |-> Widen(frames[1].rows[i], cols)]
         \o CatRows(Tail(frames), cols)

concat(frames) ==
    [none |-> FALSE, cols |-> AllCols(frames),
     rows |-> CatRows(frames, AllCols(frames)), attrs |-> <<>>]

(***************************************************************************)
(* load_all_data: the loop of lines 85-97 and the return of lines 99-107.  *)
(***************************************************************************)
\* country_data.attrs.get('source', '')
attrs_get(df, key, default) ==
    IF key \in DOMAIN df.attrs THEN df.attrs[key] ELSE default

\* "clean" in str(...): the strings of the model that contain "clean".
contains_clean(s) ==
    s \in {"data/processed/benin_clean.csv", "data/processed/sierra_leone_clean.csv",
           "data/processed/togo_clean.csv"}

EmptyAcc(cache) ==
    [countries_data |-> <<>>, loaded_countries |-> <<>>, data_sources |-> <<>>,
     cache |-> cache, called |-> <<>>, executed |-> {},
     rets |-> [c \in CountrySet |-> None]]

\* One iteration of the loop of line 85, for country c.
LoopStep(acc, c, P, R) ==
    LET country_data == load_country_data(c, acc.cache, P, R)
        seen == [acc EXCEPT
                   !.cache    = [acc.cache EXCEPT ![c] = Entry(country_data)],
                   !.called   = Append(acc.called, c),
                   !.executed = IF acc.cache[c].hit THEN acc.executed
                                ELSE acc.executed \cup {c},
                   !.rets     = [acc.rets EXCEPT ![c] = country_data]]
    IN  IF country_data.none THEN seen
        ELSE LET std == standardize_columns(country_data)
             IN  [seen EXCEPT
                    !.countries_data   = Append(acc.countries_data, std),
                    !.loaded_countries = Append(acc.loaded_countries, c),
                    !.data_sources     =
                        Append(acc.data_sources,
                               IF contains_clean(attrs_get(std, "source", ""))
                               THEN "processed" ELSE "raw")]

\* The loop of line 85 leaving at the first country that does not load.
RECURSIVE LoopFromBreak(_, _, _, _)
LoopFromBreak(acc, k, P, R) ==
    IF k > Len(Countries) THEN acc
    ELSE LET nxt == LoopStep(acc, Countries[k], P, R)
         IN  IF nxt.rets[Countries[k]].none THEN nxt
             ELSE LoopFromBreak(nxt, k + 1, P, R)

RECURSIVE LoopFrom(_, _, _, _)
LoopFrom(acc, k, P, R) ==
    IF k > Len(Countries) THEN acc
    ELSE LoopFrom(LoopStep(acc, Countries[k], P, R), k + 1, P, R)

\* Lines 99-107 returning None as soon as one country did not load.
load_all_returnAllOrNone(acc) ==
    IF Len(acc.countries_data) = Len(Countries) THEN concat(acc.countries_data) ELSE None

\* Lines 99-107: the combined table, or None when nothing was loaded.
load_all_return(acc) ==
    IF acc.countries_data # <<>> THEN concat(acc.countries_data) ELSE None

\* The body of load_all_data, run with the load_country_data cache `cache`.
load_all_data_body(cache, P, R) ==
    LET acc == LoopFrom(EmptyAcc(cache), 1, P, R)
    IN  [acc |-> acc, ret |-> load_all_return(acc)]

(***************************************************************************)
(* create_sample_data: np.random.normal draws, one draw set per seed.      *)
(***************************************************************************)
SampleCell(seed, k, i) == 300 + 10 * seed + k + i

create_sample_data(seed) ==
    concat([k \in 1..Len(Countries) |->
              [none |-> FALSE,
               cols |-> {"GHI", "DNI", "DHI", "Tamb", "WS", "RH"},
               rows |-> [i \in 1..SampleRows |->
                           [country |-> Countries[k], origin |-> "synthetic",
                            cells |-> [GHI |-> SampleCell(seed, k, i),
                                       DNI |-> SampleCell(seed, k, i),
                                       DHI |-> SampleCell(seed, k, i),
                                       Tamb |-> SampleCell(seed, k, i),
                                       WS |-> SampleCell(seed, k, i),
                                       RH |-> SampleCell(seed, k, i)]]],
               attrs |-> <<>>]])

(***************************************************************************)
(* The script run (a Streamlit rerun), lines 157-162.                      *)
(***************************************************************************)
NoRun ==
    [ran |-> FALSE, bodyAll |-> FALSE, called |-> <<>>, executed |-> {},
     rets |-> [c \in CountrySet |-> None], loaded_countries |-> <<>>,
     data_sources |-> <<>>, countries_data |-> <<>>, ret |-> None]

\* Lines 158-162: data = load_all_data(); the sample data if that is None.
module_data(ret, seed) ==
    IF ret.none THEN create_sample_data(seed) ELSE ret

RunScript ==
    \E seed \in 1..MaxSeed :
      LET hit  == cacheAll.hit
          body == load_all_data_body(cacheCountry, processed, raw)
          ret  == IF hit THEN cacheAll.val ELSE body.ret
      IN  /\ cacheAll' = Entry(ret)
          /\ cacheCountry' = IF hit THEN cacheCountry ELSE body.acc.cache
          /\ data' = module_data(ret, seed)
          /\ run' = IF hit
                    THEN [NoRun EXCEPT !.ran = TRUE, !.ret = ret]
                    ELSE [ran |-> TRUE, bodyAll |-> TRUE,
                          called |-> body.acc.called,
                          executed |-> body.acc.executed,
                          rets |-> body.acc.rets,
                          loaded_countries |-> body.acc.loaded_countries,
                          data_sources |-> body.acc.data_sources,
                          countries_data |-> body.acc.countries_data,
                          ret |-> ret]
          /\ fresh' = TRUE
          /\ UNCHANGED <<processed, raw, changes, normVars, statVars>>

(***************************************************************************)
(* The environment: data files are created, modified, removed or left      *)
(* unparseable between script runs.                                        *)
(***************************************************************************)
FileStates == {Absent, Unreadable} \cup {Content(v) : v \in 1..MaxVer}

ChangeProcessed ==
    /\ changes < MaxChanges
    /\ \E c \in CountrySet, f \in FileStates :
         /\ f # processed[c]
         /\ processed' = [processed EXCEPT ![c] = f]
    /\ changes' = changes + 1
    /\ fresh' = FALSE
    /\ UNCHANGED <<raw, cacheCountry, cacheAll, data, run, normVars, statVars>>

ChangeRaw ==
    /\ changes < MaxChanges
    /\ \E c \in CountrySet, f \in FileStates :
         /\ f # raw[c]
         /\ raw' = [raw EXCEPT ![c] = f]
    /\ changes' = changes + 1
    /\ fresh' = FALSE
    /\ UNCHANGED <<processed, cacheCountry, cacheAll, data, run, normVars, statVars>>

(***************************************************************************)
(* SpecLoad: the process starts with empty caches; every processed file is *)
(* absent, unparseable or readable, every raw file absent or readable (an  *)
(* unparseable raw file comes about by a later change).                    *)
(***************************************************************************)
InitProcessedStates == {Absent, Unreadable, Content(1)}
InitRawStates == {Absent, Content(1)}

NormIdle ==
    /\ ndf = None /\ ndf0 = None /\ ndf1 = None /\ npass = 0

StatsIdle ==
    /\ sdata = None /\ selected_countries = {} /\ metric = "GHI"
    /\ insight = [kind |-> "idle"]
    /\ ranking_data = <<>> /\ sphase = "idle"

LoadIdle ==
    /\ processed = [c \in CountrySet |-> Absent]
    /\ raw = [c \in CountrySet |-> Absent]
    /\ cacheCountry = [c \in CountrySet |-> NoEntry]
    /\ cacheAll = NoEntry
    /\ data = None
    /\ run = NoRun
    /\ fresh = FALSE
    /\ changes = 0

InitLoad ==
    /\ processed \in [CountrySet -> InitProcessedStates]
    /\ raw \in [CountrySet -> InitRawStates]
    /\ cacheCountry = [c \in CountrySet |-> NoEntry]
    /\ cacheAll = NoEntry
    /\ data = None
    /\ run = NoRun
    /\ fresh = FALSE
    /\ changes = 0
    /\ NormIdle
    /\ StatsIdle

NextLoad == RunScript \/ ChangeProcessed \/ ChangeRaw

SpecLoad == InitLoad /\ [][NextLoad]_vars

(***************************************************************************)
(* Claims about the loaders (SpecLoad).                                    *)
(***************************************************************************)
\* The rows a file of the given kind holds for country c, as load returns them.
FileRows(kind, c, f) == set_country(read_csv(kind, f.ver), c)

\* C1: load(name) follows processed -> raw -> failure: the processed file's
\* rows when it can be loaded, otherwise the raw file's rows when that file
\* exists and is readable, and the failure signal only when neither the
\* processed nor the raw file could be loaded.  Stated of every country whose
\* loader body executed in the run just finished.
C1_FallbackOrder ==
    fresh =>
      \A c \in run.executed :
        run.rets[c] =
          IF processed[c].st = "ok" THEN FileRows("processed", c, processed[c])
          ELSE IF raw[c].st = "ok" THEN FileRows("raw", c, raw[c])
          ELSE None

\* The rows of the datasets returned by load in the last run, in list order.
RECURSIVE ReturnedRows(_)
ReturnedRows(k) ==
    IF k > Len(Countries) THEN <<>>
    ELSE run.rets[Countries[k]].rows \o ReturnedRows(k + 1)

RECURSIVE ReturnedNames(_)
ReturnedNames(k) ==
    IF k > Len(Countries) THEN <<>>
    ELSE (IF run.rets[Countries[k]].none THEN <<>> ELSE <<Countries[k]>>)
         \o ReturnedNames(k + 1)

SameRow(got, want) ==
    /\ got.country = want.country
    /\ got.origin = want.origin
    /\ \A k \in DOMAIN want.cells : k \in DOMAIN got.cells /\ got.cells[k] = want.cells[k]

\* C2: failure isolation in load_all: load is attempted for every name of the
\* list whatever the earlier names did, a missing or unreadable file never
\* stops the batch, and the combined table is the concatenation, in list
\* order and row order, of the datasets that loaded.
C2_FailureIsolation ==
    run.bodyAll =>
      /\ run.called = Countries
      /\ run.loaded_countries = ReturnedNames(1)
      /\ run.ret.none <=> (ReturnedNames(1) = <<>>)
      /\ ~run.ret.none =>
            /\ Len(run.ret.rows) = Len(ReturnedRows(1))
            /\ \A i \in 1..Len(run.ret.rows) : SameRow(run.ret.rows[i], ReturnedRows(1)[i])

\* C2 witness: the first dataset fails on a read error, the last one loads.
C2_Witness ==
    /\ fresh /\ run.bodyAll
    /\ processed["Benin"] = Unreadable /\ run.rets["Benin"].none
    /\ raw["Sierra Leone"] = Absent /\ processed["Sierra Leone"] = Absent
    /\ ~run.rets["Togo"].none
    /\ Len(run.ret.rows) = RowsPerFile

\* C3: the provenance recorded for every loaded dataset is the source it was
\* read from: processed for a processed file, raw for a raw file.
C3_ProvenanceIsSource ==
    run.bodyAll =>
      \A i \in 1..Len(run.loaded_countries) :
        run.data_sources[i] = run.countries_data[i].rows[1].origin

IsSynthetic(row) == row.origin = "synthetic"

C5_NoStaleResult ==
    fresh =>
      run.ret = load_all_data_body([c \in CountrySet |-> NoEntry], processed, raw).ret

(***************************************************************************)
(* SpecNorm: standardize_columns applied again and again to a table whose  *)
(* columns are any subset of NormColumns (source names sharing a canonical *)
(* name, canonical names themselves, and a name the mapping does not know).*)
(***************************************************************************)
NormColumns == {"T_ModA", "TModA", "ModA", "Wind_Speed", "WS", "Timestamp"}

NormTable(cols, cells) ==
    [none |-> FALSE, cols |-> cols,
     rows |-> << [country |-> "Benin", origin |-> "raw", cells |-> cells] >>,
     attrs |-> <<>>]

InitNorm ==
    /\ \E cols \in SUBSET NormColumns :
         \E cells \in [cols -> 1..MaxCell] :
            /\ ndf = NormTable(cols, cells)
            /\ ndf0 = NormTable(cols, cells)
    /\ ndf1 = None
    /\ npass = 0
    /\ LoadIdle
    /\ StatsIdle

Standardize ==
    /\ npass < MaxPass
    /\ ndf' = standardize_columns(ndf)
    /\ ndf1' = IF npass = 0 THEN standardize_columns(ndf) ELSE ndf1
    /\ npass' = npass + 1
    /\ UNCHANGED <<ndf0, loadVars, statVars>>

NextNorm == Standardize

SpecNorm == InitNorm /\ [][NextNorm]_vars

Column(df, k) == [i \in 1..Len(df.rows) |-> df.rows[i].cells[k]]

sorted_keys == <<"Benin", "Sierra Leone", "Togo">>

\* data[data['country'].isin(selected_countries)]
filter_rows(rows, sel) ==
    LET keep(r) == r.country \in sel IN SelectSeq(rows, keep)

RECURSIVE SeqSum(_)
SeqSum(s) == IF s = <<>> THEN 0 ELSE s[1] + SeqSum(Tail(s))

RECURSIVE SeqSumSq(_)
SeqSumSq(s) == IF s = <<>> THEN 0 ELSE s[1] * s[1] + SeqSumSq(Tail(s))

\* The non-missing values of metric m in the group of country c.
group_values(rows, c, m) ==
    LET mine(r) == r.country = c /\ r.cells[m] # NaN
        sel == SelectSeq(rows, mine)
    IN  [i \in 1..Len(sel) |-> sel[i].cells[m]]

\* The group keys present in the rows, in groupby's key order.
group_keys(rows) ==
    LET present(c) == \E i \in 1..Len(rows) : rows[i].country = c
    IN  SelectSeq(sorted_keys, present)

\* Exact aggregates of a group: count, sum, and the sample variance num / den.
raw_stats(rows, c, m) ==
    LET v == group_values(rows, c, m)
        n == Len(v)
    IN  [n |-> n, sum |-> SeqSum(v),
         num |-> n * SeqSumSq(v) - SeqSum(v) * SeqSum(v),
         den |-> n * (n - 1)]

\* round-half-even of a / b (a >= 0, b > 0) to an integer.
round_div(a, b) ==
    LET q == a \div b
        r == a % b
    IN  IF 2 * r < b THEN q
        ELSE IF 2 * r > b THEN q + 1
        ELSE IF q % 2 = 0 THEN q ELSE q + 1

\* The integer nearest to sqrt(num / den) / 10: the least k with
\* num / den < (10 k + 5)^2.
RECURSIVE round_sqrt10(_, _, _)
round_sqrt10(num, den, k) ==
    IF num < 25 * (2 * k + 1) * (2 * k + 1) * den THEN k
    ELSE round_sqrt10(num, den, k + 1)

\* .agg(['mean', 'std', 'count']).round(2) for one group: mean and std in
\* hundredths, NaN for the mean of no value and the std of fewer than two.
rounded_stats(rs) ==
    [mean  |-> IF rs.n = 0 THEN NaN ELSE round_div(rs.sum, 10 * rs.n),
     std   |-> IF rs.n < 2 THEN NaN ELSE round_sqrt10(rs.num, rs.den, 0),
     count |-> rs.n]

AllNA == "nan"

\* Series.idxmax(): the first label of the maximum, missing values skipped;
\* AllNA when every value is missing.
RECURSIVE idxmax(_, _)
idxmax(keys, val) ==
    IF keys = <<>> THEN AllNA
    ELSE LET rest == idxmax(Tail(keys), val)
         IN  IF val[keys[1]] = NaN THEN rest
             ELSE IF rest = AllNA THEN keys[1]
             ELSE IF val[rest] > val[keys[1]] THEN rest ELSE keys[1]

\* Series.idxmin(): the first label of the minimum, missing values skipped.
RECURSIVE idxmin(_, _)
idxmin(keys, val) ==
    IF keys = <<>> THEN AllNA
    ELSE LET rest == idxmin(Tail(keys), val)
         IN  IF val[keys[1]] = NaN THEN rest
             ELSE IF rest = AllNA THEN keys[1]
             ELSE IF val[rest] < val[keys[1]] THEN rest ELSE keys[1]

Range(s) == {s[i] : i \in 1..Len(s)}

\* a.sum / a.n < b.sum / b.n
MeanLess(a, b) == a.sum * b.n < b.sum * a.n

\* .mean().sort_values(ascending=True): the orders the default, unstable sort
\* kind may return: the groups with a mean ascending, equal means in either
\* order, then the groups without a mean in key order.
ranking_orders(keys, rs) ==
    LET has(c)  == rs[c].n > 0
        nan(c)  == rs[c].n = 0
        valued  == SelectSeq(keys, has)
        missing == SelectSeq(keys, nan)
        perms   == {p \in [1..Len(valued) -> Range(valued)] :
                       /\ \A i, j \in 1..Len(valued) : i # j => p[i] # p[j]
                       /\ \A i, j \in 1..Len(valued) :
                             i < j => ~MeanLess(rs[p[j]], rs[p[i]])}
    IN  {p \o missing : p \in perms}

(***************************************************************************)
(* The dashboard body, lines 171-292: the outcome of the analysis section. *)
(* allna_raises is the build's answer to idxmin / idxmax of a Series whose *)
(* values are all missing: pandas 3 raises ValueError, earlier versions    *)
(* return NaN.                                                             *)
(***************************************************************************)
Outcome(kind) ==
    [kind |-> kind, keys |-> <<>>, country_stats |-> <<>>, raw |-> <<>>,
     best_country |-> "", worst_country |-> "",
     most_consistent |-> "", most_variable |-> ""]

dashboard_body(d, sel, m, allna_raises) ==
    LET filtered == filter_rows(d.rows, sel)
        keys     == group_keys(filtered)
        raws     == [c \in Range(keys) |-> raw_stats(filtered, c, m)]
        stats    == [c \in Range(keys) |-> rounded_stats(raws[c])]
        means    == [c \in Range(keys) |-> stats[c].mean]
        stds     == [c \in Range(keys) |-> stats[c].std]
        found    == [Outcome("single") EXCEPT
                       !.keys = keys, !.country_stats = stats, !.raw = raws,
                       !.best_country = idxmax(keys, means),
                       !.worst_country = idxmin(keys, means)]
    IN  IF d.none \/ d.rows = <<>> THEN Outcome("nothing")
        ELSE IF filtered = <<>> THEN Outcome("no_data_warning")
        ELSE IF m \notin d.cols THEN Outcome("metric_not_found")
        ELSE IF \A c \in Range(keys) : raws[c].n = 0 THEN Outcome("no_analysis")
        ELSE IF Len(keys) > 1
             THEN IF idxmin(keys, stds) = AllNA /\ allna_raises
                  THEN [found EXCEPT !.kind = "exception"]
                  ELSE [found EXCEPT
                          !.kind = "comparison",
                          !.most_consistent = idxmin(keys, stds),
                          !.most_variable = idxmax(keys, stds)]
             ELSE found

\* Line 239: the ranking is computed when the analysis section is entered.
ranking_choices(d, sel, m) ==
    LET filtered == filter_rows(d.rows, sel)
        keys     == group_keys(filtered)
        raws     == [c \in Range(keys) |-> raw_stats(filtered, c, m)]
    IN  IF d.none \/ filtered = <<>> \/ m \notin d.cols THEN {<<>>}
        ELSE IF \A c \in Range(keys) : raws[c].n = 0 THEN {<<>>}
        ELSE ranking_orders(keys, raws)

(***************************************************************************)
(* SpecStats: a combined table (the countries' blocks in list order), a    *)
(* sidebar selection, and the analysis of it.                               *)
(***************************************************************************)
StatValues == {4, 8}
Metrics == {"GHI", "DNI"}

Blocks ==
    {b \in UNION {[1..n -> StatValues \cup {NaN}] : n \in 0..MaxRows} :
        \A i, j \in 1..Len(b) : i < j => b[i] <= b[j]}

BlockRows(c, b) ==
    [i \in 1..Len(b) |-> [country |-> c, origin |-> "raw", cells |-> [GHI |-> b[i]]]]

StatTable(b1, b2, b3) ==
    [none |-> FALSE, cols |-> {"GHI"},
     rows |-> BlockRows(Countries[1], b1) \o BlockRows(Countries[2], b2)
              \o BlockRows(Countries[3], b3),
     attrs |-> <<>>]

InitStats ==
    /\ \E b1 \in Blocks, b2 \in Blocks, b3 \in Blocks : sdata = StatTable(b1, b2, b3)
    /\ selected_countries \in SUBSET CountrySet
    /\ metric \in Metrics
    /\ insight = Outcome("idle")
    /\ ranking_data = <<>>
    /\ sphase = "input"
    /\ LoadIdle
    /\ NormIdle

Analyse ==
    /\ sphase = "input"
    /\ \E allna_raises \in BOOLEAN :
         insight' = dashboard_body(sdata, selected_countries, metric, allna_raises)
    /\ ranking_data' \in ranking_choices(sdata, selected_countries, metric)
    /\ sphase' = "done"
    /\ UNCHANGED <<sdata, selected_countries, metric, loadVars, normVars>>

NextStats == Analyse

SpecStats == InitStats /\ [][NextStats]_vars

(***************************************************************************)
(* Claims about the statistics and the insights (SpecStats).               *)
(***************************************************************************)
Filtered == filter_rows(sdata.rows, selected_countries)

\* The position of a country's first row in the filtered table.
FirstPos(c) ==
    CHOOSE i \in 1..Len(Filtered) :
        /\ Filtered[i].country = c
        /\ \A j \in 1..(i - 1) : Filtered[j].country # c

HasInsight == insight.kind \in {"single", "comparison"}

MapMean(c) == insight.country_stats[c].mean

ExactMeanLess(a, b) == insight.raw[a].sum * insight.raw[b].n < insight.raw[b].sum * insight.raw[a].n
ExactVarLess(a, b)  == insight.raw[a].num * insight.raw[b].den < insight.raw[b].num * insight.raw[a].den

\* C7: best is the group with the maximum mean of the selected metric and
\* worst the group with the minimum mean, and among several groups at the
\* maximum (minimum) the one appearing first in the input table is taken.
C7_BestWorstSelection ==
    HasInsight =>
      LET valued == {g \in Range(insight.keys) : insight.raw[g].n > 0}
          best   == insight.best_country
          worst  == insight.worst_country
      IN  /\ best \in valued /\ worst \in valued
          /\ \A g \in valued : ~ExactMeanLess(best, g)
          /\ \A g \in valued : ~ExactMeanLess(g, worst)
          /\ \A g \in valued :
                (~ExactMeanLess(g, best) /\ ~ExactMeanLess(best, g)) =>
                   FirstPos(best) <= FirstPos(g)
          /\ \A g \in valued :
                (~ExactMeanLess(g, worst) /\ ~ExactMeanLess(worst, g)) =>
                   FirstPos(worst) <= FirstPos(g)

\* The same selection rule read of the two-decimal means that country_stats
\* holds: the first-appearing group at the maximum (minimum) rounded mean.
SelectionOnRoundedMeans ==
    HasInsight =>
      LET valued == {g \in Range(insight.keys) : MapMean(g) # NaN}
          best   == insight.best_country
          worst  == insight.worst_country
      IN  /\ best \in valued /\ worst \in valued
          /\ \A g \in valued : MapMean(g) <= MapMean(best)
          /\ \A g \in valued : MapMean(g) >= MapMean(worst)
          /\ \A g \in valued : MapMean(g) = MapMean(best) => FirstPos(best) <= FirstPos(g)
          /\ \A g \in valued : MapMean(g) = MapMean(worst) => FirstPos(worst) <= FirstPos(g)

\* The first key of cand, in key order, that no other key of cand beats.
FirstUnbeaten(cand, Beats(_, _)) ==
    LET top == {c \in cand : \A d \in cand : ~Beats(d, c)}
        pos(c) == CHOOSE i \in 1..Len(insight.keys) : insight.keys[i] = c
    IN  IF top = {} THEN AllNA
        ELSE CHOOSE c \in top : \A d \in top : pos(c) <= pos(d)

\* C8: rounding to two decimals is presentation only: best, worst, most
\* consistent and most variable are the groups chosen on the unrounded means
\* and standard deviations.
C8_RoundingPresentationOnly ==
    HasInsight =>
      LET withMean == {c \in Range(insight.keys) : insight.raw[c].n > 0}
          withStd  == {c \in Range(insight.keys) : insight.raw[c].n > 1}
          Higher(a, b)  == ExactMeanLess(b, a)
          Lower(a, b)   == ExactMeanLess(a, b)
          Wider(a, b)   == ExactVarLess(b, a)
          Tighter(a, b) == ExactVarLess(a, b)
      IN  /\ insight.best_country = FirstUnbeaten(withMean, Higher)
          /\ insight.worst_country = FirstUnbeaten(withMean, Lower)
          /\ insight.kind = "comparison" =>
                /\ insight.most_consistent = FirstUnbeaten(withStd, Tighter)
                /\ insight.most_variable = FirstUnbeaten(withStd, Wider)

\* C9: the comparative fields are produced only with two or more groups, one
\* group gives the single-group summary, no group gives a non-fatal no-data
\* outcome, and in no case (groups whose std is NaN included) does the
\* insight section raise.
C9_InsightNeverRaises ==
    sphase = "done" =>
      /\ insight.kind # "exception"
      /\ insight.kind = "comparison" => Len(insight.keys) >= 2
      /\ insight.kind = "single" =>
            /\ Len(insight.keys) = 1
            /\ insight.most_consistent = "" /\ insight.most_variable = ""
      /\ Filtered = <<>> => insight.kind \in {"nothing", "no_data_warning"}

Ranked == ranking_data # <<>>

\* C10: the ranking is a permutation of the groups of the filtered table,
\* ascending by mean, and groups with equal means keep their first-appearance
\* order.
C10_RankingStable ==
    (sphase = "done" /\ Ranked) =>
      LET keys == group_keys(Filtered)
          rs   == [c \in Range(keys) |-> raw_stats(Filtered, c, metric)]
          n    == Len(ranking_data)
      IN  /\ n = Len(keys) /\ Range(ranking_data) = Range(keys)
          /\ \A i, j \in 1..n :
                (i < j /\ rs[ranking_data[i]].n > 0 /\ rs[ranking_data[j]].n > 0) =>
                   /\ ~MeanLess(rs[ranking_data[j]], rs[ranking_data[i]])
                   /\ ~MeanLess(rs[ranking_data[i]], rs[ranking_data[j]]) =>
                         FirstPos(ranking_data[i]) < FirstPos(ranking_data[j])

====
